---- MODULE Spec2Model ----
(***************************************************************************)
(* Micro Delivery API (src/main.py): wallet ledger, delivery-date cutoff,  *)
(* order placement and the next-morning fulfilment summary.                *)
(*                                                                         *)
(* Representation.                                                         *)
(*  - Money is a Python float (IEEE-754 binary64) in the source.  Every   *)
(*    amount the program stores or returns is the double nearest to a      *)
(*    decimal: a request amount or catalog price parsed from JSON, or the  *)
(*    result of round(x, 2).  Such an amount is held here as that decimal, *)
(*    an integer number of thousandths of a currency unit.  The arithmetic *)
(*    between stored amounts (the running sums of compute_wallet_balance   *)
(*    and of the subtotal loop, price * qty, subtotal - balance) is done   *)
(*    on the doubles themselves: a double is the exact integer number of   *)
(*    2^-64 units it is worth, kept in three limbs of 24 bits, and every   *)
(*    operation rounds its exact result to 53 significant bits, ties to    *)
(*    even, as the hardware does.  round(x, 2) rounds the exact binary     *)
(*    value of x to the nearest cent, ties to even, as CPython does.       *)
(*  - A date is its proleptic ordinal (date.toordinal()); isoformat() is   *)
(*    injective on dates, so the stored delivery_date string is            *)
(*    represented by the ordinal it was formatted from.                    *)
(*  - Document ids: an order's id is its position in the order collection, *)
(*    a product's id is the number it was created under.  Product id 0     *)
(*    stands for a string that is not a valid ObjectId.                    *)
(*  - The free-text "note" of a transaction and the "category" and         *)
(*    "image_url" of a product are never read by the handlers and are      *)
(*    left out of the records.                                             *)
(***************************************************************************)
EXTENDS Integers, Sequences, FiniteSets, TLC

\* ------------------------------------------------------------------ bounds
MaxTxns == 2
MaxOrders == 1
MaxSnapshotTxns == 4
MaxSnapshotOrders == 2
MaxLog == 3
MaxDay == 2
MaxSummaryOrders == 2

\* ------------------------------------------------------- program constants
DEFAULT_CUTOFF_HOUR == 23

\* ------------------------------------------------------------------ inputs
Clients == {"u1", "u2"}
Admins == {"adm"}
Users == Clients \cup Admins
Role == [u \in Users |-> IF u \in Admins THEN "admin" ELSE "client"]
\* the wallet the requests of the model are made for
WalletIds == {"u1"}

BadId == 0
\* ids create_document hands out to products; GhostId is never handed out
ProductIds == {1}
GhostId == 2
RequestIds == ProductIds \cup {BadId, GhostId}
Names == {"milk", "bread"}
Prices == {5, 6}
Qtys == {1, 2}
TopUpAmounts == {5, 10}
TxnTypes == {"credit", "debit", "refund"}
Statuses == {"placed", "packed", "delivered", "cancelled"}
NoProduct == [present |-> FALSE]
NoOrder == 0

VARIABLES
    products,      \* db["product"]: product id -> document or NoProduct
    nextPid,       \* number of product ids handed out by create_document
    orders,        \* db["order"]: sequence of order documents, id = index
    txns,          \* db["transaction"]: sequence of transaction documents
    CUTOFF_HOUR,   \* the configured cutoff hour
    procs,         \* in-flight place_order requests (step-level model)
    topup,         \* the wallet_topup request in flight (step-level model)
    last           \* the response of the last completed request

vars == <<products, nextPid, orders, txns, CUTOFF_HOUR, procs, topup, last>>

\* ------------------------------------------------ binary64 arithmetic
\* A double is <<l2, l1, l0>>, worth l2 * 2^48 + l1 * 2^24 + l0 units of
\* 2^-64, with 0 <= l1, l0 < 2^24 and the sign carried by l2.
MantBits == 53
FracBits == 64
LimbBits == 24
LimbBase == 2^LimbBits
Pow2 == [k \in 0..30 |-> 2^k]

Limbs(a2, a1, a0) ==
    LET t1 == a1 + (a0 \div LimbBase)
    IN  <<a2 + (t1 \div LimbBase), t1 % LimbBase, a0 % LimbBase>>

FZero == <<0, 0, 0>>
FNeg(x) == Limbs(-x[1], -x[2], -x[3])
FIsNeg(x) == x[1] < 0

BitLen(n) ==
    CHOOSE k \in 0..30 : n < Pow2[k] /\ (k = 0 \/ Pow2[k - 1] <= n)

MagBits(m) ==
    IF m[1] > 0 THEN 2 * LimbBits + BitLen(m[1])
    ELSE IF m[2] > 0 THEN LimbBits + BitLen(m[2])
    ELSE BitLen(m[3])

\* a non-negative exact value to MantBits significant bits, ties to even;
\* sticky: the exact value has more below its last unit
RoundMag(m, sticky) ==
    LET s == MagBits(m) - MantBits
    IN  IF s <= 0 THEN m
        ELSE LET q == m[3] \div Pow2[s]
                 r == m[3] % Pow2[s]
                 half == Pow2[s - 1]
                 up == \/ r > half
                       \/ r = half /\ (sticky \/ q % 2 = 1)
             IN  Limbs(m[1], m[2], (IF up THEN q + 1 ELSE q) * Pow2[s])

FRound(x) ==
    IF FIsNeg(x) THEN FNeg(RoundMag(FNeg(x), FALSE)) ELSE RoundMag(x, FALSE)

\* x + y, x - y, x * n for an int n, x < y
FAdd(x, y) == FRound(Limbs(x[1] + y[1], x[2] + y[2], x[3] + y[3]))
FSub(x, y) == FAdd(x, FNeg(y))
FMulInt(x, n) == FRound(Limbs(x[1] * n, x[2] * n, x[3] * n))
FLess(x, y) ==
    \/ x[1] < y[1]
    \/ x[1] = y[1] /\ x[2] < y[2]
    \/ x[1] = y[1] /\ x[2] = y[2] /\ x[3] < y[3]

\* the binary expansion of n/1000, FracBits bits after the point, four at a
\* time, and what is left of the division
RECURSIVE Expand(_, _, _)
Expand(acc, rem, bits) ==
    IF bits = 0 THEN <<acc, rem>>
    ELSE LET digit == (16 * rem) \div 1000
         IN  Expand(Limbs(16 * acc[1], 16 * acc[2], 16 * acc[3] + digit),
                    (16 * rem) % 1000, bits - 4)

\* the double nearest to n thousandths
NearestDouble(n) ==
    LET e == Expand(<<0, 0, n \div 1000>>, n % 1000, FracBits)
    IN  RoundMag(e[1], e[2] # 0)

\* the stored amounts of the model lie within MilliRange thousandths
MilliRange == 0..3000
Doubles == [n \in MilliRange |-> NearestDouble(n)]
FromMilli(n) == IF n < 0 THEN FNeg(Doubles[-n]) ELSE Doubles[n]

\* the exact value of a non-negative double in cents: the whole cents, and
\* whether the rest is below, at or above half a cent (-1, 0, 1)
CentsOf(m) ==
    LET p == Limbs(100 * m[1], 100 * m[2], 100 * m[3])
        unit == Pow2[FracBits - 2 * LimbBits]
        r == p[1] % unit
        low == p[2] # 0 \/ p[3] # 0
    IN  [whole |-> p[1] \div unit,
         rest |-> IF 2 * r > unit \/ (2 * r = unit /\ low) THEN 1
                  ELSE IF 2 * r = unit THEN 0 ELSE -1]

RoundCents(m) ==
    LET c == CentsOf(m)
    IN  IF c.rest = 1 \/ (c.rest = 0 /\ c.whole % 2 = 1) THEN c.whole + 1
        ELSE c.whole

\* mutant: the value is cut to whole cents
Round2_truncated(x) ==
    IF FIsNeg(x) THEN -10 * CentsOf(FNeg(x)).whole ELSE 10 * CentsOf(x).whole

\* round(x, 2): the binary value of x to the nearest cent, ties to even; the
\* result is the double nearest to that decimal, held in thousandths
Round2(x) ==
    IF FIsNeg(x) THEN -10 * RoundCents(FNeg(x)) ELSE 10 * RoundCents(x)

\* ------------------------------------------------------------- pure helpers

\* authorisation test shared by wallet_topup and place_order
Allowed(caller, user_id) ==
    ~(caller # user_id /\ Role[caller] # "admin")

get_documents_transaction(log, user_id) ==
    SelectSeq(log, LAMBDA t : t.user_id = user_id)

\* mutant: every transaction that is not a credit is subtracted
RECURSIVE BalanceFold_else_debit(_, _)
BalanceFold_else_debit(ts, balance) ==
    IF ts = <<>> THEN balance
    ELSE LET t == Head(ts)
             amt == FromMilli(t.amount)
         IN  IF t.type = "credit"
             THEN BalanceFold_else_debit(Tail(ts), FAdd(balance, amt))
             ELSE BalanceFold_else_debit(Tail(ts), FSub(balance, amt))

\* the loop of compute_wallet_balance over the transactions read
RECURSIVE BalanceFold(_, _)
BalanceFold(ts, balance) ==
    IF ts = <<>> THEN balance
    ELSE LET t == Head(ts)
             amt == FromMilli(t.amount)
         IN  IF t.type = "credit"
             THEN BalanceFold(Tail(ts), FAdd(balance, amt))
             ELSE IF t.type = "debit"
             THEN BalanceFold(Tail(ts), FSub(balance, amt))
             ELSE BalanceFold(Tail(ts), balance)

balance_of_log(log, user_id) ==
    Round2(BalanceFold(get_documents_transaction(log, user_id), FZero))

compute_wallet_balance(user_id) ==
    balance_of_log(txns, user_id)

\* mutant: the cutoff instant itself still counts as before the cutoff
TimeLess_or_equal(a, b) ==
    \/ a.hour < b.hour
    \/ a.hour = b.hour /\ a.minute < b.minute
    \/ a.hour = b.hour /\ a.minute = b.minute /\ a.second <= b.second

\* datetime.time ordering: lexicographic on (hour, minute, second)
TimeLess(a, b) ==
    \/ a.hour < b.hour
    \/ a.hour = b.hour /\ a.minute < b.minute
    \/ a.hour = b.hour /\ a.minute = b.minute /\ a.second < b.second

get_delivery_date(now) ==
    LET cutoff == [hour |-> CUTOFF_HOUR, minute |-> 0, second |-> 0]
    IN  IF TimeLess(now, cutoff) THEN now.date + 1 ELSE now.date + 2


\* ------------------------------------------------------------ request inputs
ItemLines == [product_id : RequestIds, qty : Qtys]
ItemCounts == 0..2
\* every one-line request; two-line requests of one unit then two
ItemLists ==
    {items \in UNION {[1..n -> ItemLines] : n \in ItemCounts} :
        Len(items) = 2 => (items[1].qty = 1 /\ items[2].qty = 2)}

Nows == {[date |-> 1, hour |-> 22, minute |-> 59, second |-> 59],
         [date |-> 1, hour |-> 23, minute |-> 0, second |-> 0]}

ProductIn == [name : Names, price : Prices, available : BOOLEAN]

UpdateFields == {"name", "price", "available"}
ProductUpdate ==
    {u \in [fields : SUBSET UpdateFields, name : Names, price : Prices,
            available : BOOLEAN] :
        /\ ("name" \notin u.fields => u.name = "milk")
        /\ ("price" \notin u.fields => u.price = 5)
        /\ ("available" \notin u.fields => u.available = TRUE)}

\* ------------------------------------------------------- place_order helpers
\* mutant: the availability of a product found is not looked at
RECURSIVE LookupError_ignores_available(_)
LookupError_ignores_available(items) ==
    IF items = <<>> THEN "ok"
    ELSE LET pid == Head(items).product_id
         IN  IF pid = BadId THEN "invalid_id"
             ELSE IF pid \notin ProductIds \/ ~products[pid].present
                  THEN "not_found"
             ELSE LookupError_ignores_available(Tail(items))

\* the first loop of place_order: the first product id that fails decides
RECURSIVE LookupError(_)
LookupError(items) ==
    IF items = <<>> THEN "ok"
    ELSE LET pid == Head(items).product_id
         IN  IF pid = BadId THEN "invalid_id"
             ELSE IF pid \notin ProductIds \/ ~products[pid].present
                  THEN "not_found"
             ELSE IF ~products[pid].available THEN "unavailable"
             ELSE LookupError(Tail(items))

\* the second loop: one stored line per requested line, catalog name and price
OrderItems(items) ==
    [i \in 1..Len(items) |->
        [product_id |-> items[i].product_id,
         name |-> products[items[i].product_id].name,
         price |-> products[items[i].product_id].price,
         qty |-> items[i].qty]]

\* subtotal = 0.0, then subtotal += price * qty line by line
RECURSIVE LineTotals(_, _)
LineTotals(order_items, subtotal) ==
    IF order_items = <<>> THEN subtotal
    ELSE LET line_total == FMulInt(FromMilli(Head(order_items).price),
                                   Head(order_items).qty)
         IN  LineTotals(Tail(order_items), FAdd(subtotal, line_total))

\* mutant: the subtotal is cut to whole cents
Subtotal_truncated(order_items) ==
    Round2_truncated(LineTotals(order_items, FZero))

Subtotal(order_items) ==
    Round2(LineTotals(order_items, FZero))

\* mutant: a balance equal to the subtotal is refused too
Insufficient_le(balance, subtotal) ==
    ~FLess(FromMilli(subtotal), FromMilli(balance))

\* mutant: only a wallet that is already overdrawn is refused
Insufficient_overdrawn(balance, subtotal) ==
    FLess(FromMilli(balance), FZero)

\* the sufficiency test of place_order
Insufficient(balance, subtotal) ==
    FLess(FromMilli(balance), FromMilli(subtotal))

OrderDoc(user_id, order_items, subtotal, now) ==
    [user_id |-> user_id, items |-> order_items, subtotal |-> subtotal,
     delivery_date |-> get_delivery_date(now), status |-> "placed"]

DebitDoc(user_id, subtotal, order_id) ==
    [user_id |-> user_id, type |-> "debit", amount |-> subtotal,
     order_id |-> order_id]

CreditDoc(user_id, amount) ==
    [user_id |-> user_id, type |-> "credit", amount |-> amount,
     order_id |-> NoOrder]

\* a place_order request in flight: where it stands and what it holds
ProcIds == {1, 2}
Idle == [pc |-> "idle", at |-> "", user_id |-> "", items |-> <<>>,
         subtotal |-> 0, balance |-> 0, order_id |-> NoOrder, code |-> 0,
         new_balance |-> 0, stale |-> FALSE]

\* no wallet_topup request stands between its write and its read
NoTopUp == [pc |-> "idle"]

TypeOK ==
    /\ nextPid \in 0..Cardinality(ProductIds)
    /\ Len(orders) <= MaxSnapshotOrders
    /\ Len(txns) <= MaxSnapshotTxns

\* ------------------------------------------------- handlers, one per request
wallet_topup(caller, user_id, amount) ==
    /\ UNCHANGED <<products, nextPid, orders, CUTOFF_HOUR, topup, procs>>
    /\ IF ~Allowed(caller, user_id)
       THEN /\ last' = [op |-> "wallet_topup", code |-> 403]
            /\ UNCHANGED txns
       ELSE /\ txns' = Append(txns, CreditDoc(user_id, amount))
            /\ last' = [op |-> "wallet_topup", code |-> 200,
                        transaction_id |-> Len(txns'),
                        new_balance |-> balance_of_log(txns', user_id)]

\* The admin handlers answer their caller only and their responses are not
\* recorded in last.  A request they reject (403 for a caller who is no admin,
\* 400 for an invalid id, 404 for no matching product) or answer without a
\* write ({"updated": False} for an update naming no field) leaves the state
\* as it is, so each rejection is a guard of the action.
create_product(caller, p) ==
    /\ Role[caller] = "admin"
    /\ nextPid + 1 \in ProductIds
    /\ nextPid' = nextPid + 1
    /\ products' = [products EXCEPT ![nextPid'] =
                      [present |-> TRUE, name |-> p.name,
                       price |-> p.price, available |-> p.available]]
    /\ UNCHANGED <<orders, txns, CUTOFF_HOUR, topup, procs, last>>

\* $set of the fields that are not None
SetFields(doc, upd) ==
    [present |-> TRUE,
     name |-> IF "name" \in upd.fields THEN upd.name ELSE doc.name,
     price |-> IF "price" \in upd.fields THEN upd.price ELSE doc.price,
     available |-> IF "available" \in upd.fields THEN upd.available
                   ELSE doc.available]

\* mutant: a new price is also written into the lines of the orders placed
update_product_cascade(caller, product_id, upd) ==
    /\ Role[caller] = "admin"
    /\ upd.fields # {}
    /\ product_id # BadId
    /\ product_id \in ProductIds /\ products[product_id].present
    /\ products' = [products EXCEPT ![product_id] = SetFields(@, upd)]
    /\ orders' = [i \in 1..Len(orders) |->
                    [orders[i] EXCEPT !.items =
                        [k \in 1..Len(orders[i].items) |->
                            IF orders[i].items[k].product_id = product_id
                            THEN [orders[i].items[k] EXCEPT
                                     !.price = products'[product_id].price]
                            ELSE orders[i].items[k]]]]
    /\ UNCHANGED <<nextPid, txns, CUTOFF_HOUR, topup, procs, last>>

update_product(caller, product_id, upd) ==
    /\ Role[caller] = "admin"
    /\ upd.fields # {}
    /\ product_id # BadId
    /\ product_id \in ProductIds /\ products[product_id].present
    /\ products' = [products EXCEPT ![product_id] = SetFields(@, upd)]
    /\ UNCHANGED <<nextPid, orders, txns, CUTOFF_HOUR, topup, procs, last>>

delete_product(caller, product_id) ==
    /\ Role[caller] = "admin"
    /\ product_id # BadId
    /\ product_id \in ProductIds /\ products[product_id].present
    /\ products' = [products EXCEPT ![product_id] = NoProduct]
    /\ UNCHANGED <<nextPid, orders, txns, CUTOFF_HOUR, topup, procs, last>>

\* place_order up to the wallet check: the rejection it raises, or Passed
Passed == [op |-> "place_order", code |-> 0]

\* lines 277-291: authorisation, the empty list, the product lookups
PlaceValidate(caller, user_id, items) ==
    IF ~Allowed(caller, user_id)
    THEN [op |-> "place_order", code |-> 403]
    ELSE IF items = <<>>
    THEN [op |-> "place_order", code |-> 400, detail |-> "no_items"]
    ELSE LET err == LookupError(items)
         IN  IF err = "invalid_id"
             THEN [op |-> "place_order", code |-> 400, detail |-> "invalid_id"]
             ELSE IF err = "not_found"
             THEN [op |-> "place_order", code |-> 404]
             ELSE IF err = "unavailable"
             THEN [op |-> "place_order", code |-> 400, detail |-> "unavailable"]
             ELSE Passed

\* lines 308-317: the wallet check against the balance read
WalletCheck(balance, subtotal) ==
    IF Insufficient(balance, subtotal)
    THEN [op |-> "place_order", code |-> 402,
          required_topup |-> Round2(FSub(FromMilli(subtotal),
                                         FromMilli(balance))),
          balance |-> balance, subtotal |-> subtotal]
    ELSE Passed

PlaceChecks(caller, user_id, items) ==
    LET validated == PlaceValidate(caller, user_id, items)
    IN  IF validated # Passed
        THEN validated
        ELSE WalletCheck(compute_wallet_balance(user_id),
                         Subtotal(OrderItems(items)))

\* place_order from the reading of the clock on: the two writes and the response
PlaceWrites(user_id, items, now) ==
    LET order_items == OrderItems(items)
        subtotal == Subtotal(order_items)
        orders2 == Append(orders, OrderDoc(user_id, order_items, subtotal, now))
        order_id == Len(orders2)
        txns2 == Append(txns, DebitDoc(user_id, subtotal, order_id))
    IN  [resp |-> [op |-> "place_order", code |-> 200,
                   order_id |-> order_id,
                   delivery_date |-> get_delivery_date(now),
                   subtotal |-> subtotal,
                   balance |-> balance_of_log(txns2, user_id),
                   status |-> "confirmed"],
         orders |-> orders2, txns |-> txns2]

\* The outcome of place_order on the current store: the response and the
\* order and transaction collections the handler leaves behind.
PlaceOutcome(caller, user_id, items, now) ==
    LET checked == PlaceChecks(caller, user_id, items)
    IN  IF checked # Passed
        THEN [resp |-> checked, orders |-> orders, txns |-> txns]
        ELSE PlaceWrites(user_id, items, now)

\* datetime.now() is read only once the checks have passed
place_order(caller, user_id, items) ==
    /\ UNCHANGED <<products, nextPid, CUTOFF_HOUR, topup, procs>>
    /\ LET checked == PlaceChecks(caller, user_id, items)
       IN  IF checked # Passed
           THEN /\ last' = checked
                /\ UNCHANGED <<orders, txns>>
           ELSE \E now \in Nows :
                  LET out == PlaceWrites(user_id, items, now)
                  IN  /\ orders' = out.orders
                      /\ txns' = out.txns
                      /\ last' = out.resp

\* ---------------------------------------------- serialized requests: Spec
NoResponse == [op |-> "none", code |-> 0]

Init ==
    /\ products = [p \in ProductIds |-> NoProduct]
    /\ nextPid = 0
    /\ orders = <<>>
    /\ txns = <<>>
    /\ CUTOFF_HOUR = DEFAULT_CUTOFF_HOUR
    /\ procs = [p \in ProcIds |-> Idle]
    /\ topup = NoTopUp
    /\ last = NoResponse

\* the collections of a behaviour stay within the bounds
TopUp ==
    \E caller \in Users, user_id \in WalletIds, amount \in TopUpAmounts :
        /\ wallet_topup(caller, user_id, amount)
        /\ Len(txns') <= MaxTxns

CreateProduct ==
    \E caller \in Users, p \in ProductIn : create_product(caller, p)

UpdateProduct ==
    \E caller \in Users, pid \in RequestIds, upd \in ProductUpdate :
        update_product(caller, pid, upd)

DeleteProduct ==
    \E caller \in Users, pid \in RequestIds :
        delete_product(caller, pid)

PlaceOrder ==
    \E caller \in Users, user_id \in WalletIds, items \in ItemLists :
        /\ place_order(caller, user_id, items)
        /\ Len(orders') <= MaxOrders
        /\ Len(txns') <= MaxTxns

Next ==
    \/ TopUp
    \/ CreateProduct
    \/ UpdateProduct
    \/ DeleteProduct
    \/ PlaceOrder

Spec == Init /\ [][Next]_vars

\* ------------------- longer histories of the same requests: SpecSnapshot
\* The handlers of Spec over more orders and transactions: top-ups of one
\* amount and one-line orders of one unit, every catalog request.
SnapshotTopUp == 20
SnapshotItemLists == [1..1 -> [product_id : ProductIds, qty : {1}]]

TopUpSnapshot ==
    \E caller \in Users, user_id \in WalletIds :
        /\ wallet_topup(caller, user_id, SnapshotTopUp)
        /\ Len(txns') <= MaxSnapshotTxns

PlaceOrderSnapshot ==
    \E caller \in Users, user_id \in WalletIds, items \in SnapshotItemLists :
        /\ place_order(caller, user_id, items)
        /\ Len(orders') <= MaxSnapshotOrders
        /\ Len(txns') <= MaxSnapshotTxns

NextSnapshot ==
    \/ TopUpSnapshot
    \/ CreateProduct
    \/ UpdateProduct
    \/ DeleteProduct
    \/ PlaceOrderSnapshot

SpecSnapshot == Init /\ [][NextSnapshot]_vars

\* ------------------------------------- interleaved requests: SpecConc
\* place_order as the steps the store sees, for the requests ProcIds, beside
\* one wallet_topup request at a time split the same way.  Each step is one
\* access to the store; the requests share nothing else.
\* stale is a history flag: another request wrote a debit for the same user
\* between this request's reading of the balance and its own debit.
ConcItemLists == [1..1 -> [product_id : ProductIds, qty : Qtys]] \cup {<<>>}
ConcProductIn == [name : {"milk"}, price : {10}, available : {TRUE}]

InFlight == {"check", "create_order", "create_debit", "respond"}

\* wallet_topup, lines 228-236: the authorisation and the insert of the credit
TopUpInsert(caller, user_id, amount) ==
    /\ topup = NoTopUp
    /\ IF ~Allowed(caller, user_id)
       THEN /\ last' = [op |-> "wallet_topup", code |-> 403]
            /\ UNCHANGED <<txns, topup>>
       ELSE /\ Len(txns) < MaxTxns
            /\ txns' = Append(txns, CreditDoc(user_id, amount))
            /\ topup' = [pc |-> "respond", user_id |-> user_id,
                         transaction_id |-> Len(txns')]
            /\ UNCHANGED last
    /\ UNCHANGED <<products, nextPid, orders, CUTOFF_HOUR, procs>>

\* wallet_topup, line 237: read the balance, answer
TopUpRespond ==
    /\ topup.pc = "respond"
    /\ last' = [op |-> "wallet_topup", code |-> 200,
                transaction_id |-> topup.transaction_id,
                new_balance |-> compute_wallet_balance(topup.user_id)]
    /\ topup' = NoTopUp
    /\ UNCHANGED <<products, nextPid, orders, txns, CUTOFF_HOUR, procs>>

\* lines 277-306: validate, look the products up, build the lines
PlaceBegin(p, caller, user_id, items) ==
    /\ procs[p].pc = "idle"
    /\ IF PlaceValidate(caller, user_id, items) # Passed
       THEN procs' = [procs EXCEPT ![p] =
                [@ EXCEPT !.pc = "rejected", !.user_id = user_id,
                          !.code = PlaceValidate(caller, user_id, items).code]]
       ELSE procs' = [procs EXCEPT ![p] =
                [@ EXCEPT !.pc = "check", !.user_id = user_id,
                          !.items = OrderItems(items),
                          !.subtotal = Subtotal(OrderItems(items))]]
    /\ UNCHANGED <<products, nextPid, orders, txns, CUTOFF_HOUR, topup, last>>

\* lines 309-317: read the balance, compare
PlaceCheck(p) ==
    /\ procs[p].pc = "check"
    /\ LET balance == compute_wallet_balance(procs[p].user_id)
       IN  IF WalletCheck(balance, procs[p].subtotal) # Passed
           THEN procs' = [procs EXCEPT ![p] =
                    [@ EXCEPT !.pc = "rejected", !.code = 402,
                              !.balance = balance]]
           ELSE procs' = [procs EXCEPT ![p] =
                    [@ EXCEPT !.pc = "create_order", !.balance = balance]]
    /\ UNCHANGED <<products, nextPid, orders, txns, CUTOFF_HOUR, topup, last>>

\* mutant: the order and its debit are written in one step
PlaceCreateOrder_with_debit(p) ==
    /\ procs[p].pc = "create_order"
    /\ \E now \in Nows :
          orders' = Append(orders, OrderDoc(procs[p].user_id, procs[p].items,
                                            procs[p].subtotal, now))
    /\ txns' = Append(txns, DebitDoc(procs[p].user_id, procs[p].subtotal,
                                     Len(orders')))
    /\ procs' = [procs EXCEPT ![p] =
                    [@ EXCEPT !.pc = "respond", !.order_id = Len(orders')]]
    /\ UNCHANGED <<products, nextPid, CUTOFF_HOUR, topup, last>>

\* lines 320-331: read the clock, create the order
PlaceCreateOrder(p) ==
    /\ procs[p].pc = "create_order"
    /\ \E now \in Nows :
          orders' = Append(orders, OrderDoc(procs[p].user_id, procs[p].items,
                                            procs[p].subtotal, now))
    /\ procs' = [procs EXCEPT ![p] =
                    [@ EXCEPT !.pc = "create_debit", !.order_id = Len(orders')]]
    /\ UNCHANGED <<products, nextPid, txns, CUTOFF_HOUR, topup, last>>

\* lines 334-341: create the debit
PlaceCreateDebit(p) ==
    /\ procs[p].pc = "create_debit"
    /\ txns' = Append(txns, DebitDoc(procs[p].user_id, procs[p].subtotal,
                                     procs[p].order_id))
    /\ procs' = [q \in ProcIds |->
                    IF q = p THEN [procs[p] EXCEPT !.pc = "respond"]
                    ELSE IF /\ procs[q].pc \in {"create_order", "create_debit"}
                            /\ procs[q].user_id = procs[p].user_id
                         THEN [procs[q] EXCEPT !.stale = TRUE]
                         ELSE procs[q]]
    /\ UNCHANGED <<products, nextPid, orders, CUTOFF_HOUR, topup, last>>

\* lines 343-350: read the balance again, answer
PlaceRespond(p) ==
    /\ procs[p].pc = "respond"
    /\ procs' = [procs EXCEPT ![p] =
                    [@ EXCEPT !.pc = "done", !.code = 200,
                              !.new_balance =
                                  compute_wallet_balance(procs[p].user_id)]]
    /\ UNCHANGED <<products, nextPid, orders, txns, CUTOFF_HOUR, topup, last>>

\* the request stops where it stands (the worker dies, or the write it was
\* about to make fails and the exception ends the handler)
Crash(p) ==
    /\ procs[p].pc \in InFlight
    /\ procs' = [procs EXCEPT ![p] = [@ EXCEPT !.pc = "crashed", !.at = procs[p].pc]]
    /\ UNCHANGED <<products, nextPid, orders, txns, CUTOFF_HOUR, topup, last>>

Begin ==
    \E p \in ProcIds, caller \in Users, user_id \in WalletIds,
       items \in ConcItemLists :
        PlaceBegin(p, caller, user_id, items)

Check == \E p \in ProcIds : PlaceCheck(p)

CreateOrder == \E p \in ProcIds : PlaceCreateOrder(p)

CreateDebit == \E p \in ProcIds : PlaceCreateDebit(p)

Respond == \E p \in ProcIds : PlaceRespond(p)

Stop == \E p \in ProcIds : Crash(p)

CreateProductConc ==
    \E caller \in Users, p \in ConcProductIn : create_product(caller, p)

TopUpWrite ==
    \E caller \in Users, user_id \in WalletIds, amount \in TopUpAmounts :
        TopUpInsert(caller, user_id, amount)

TopUpAnswer == TopUpRespond

NextConc ==
    \/ TopUpWrite
    \/ TopUpAnswer
    \/ CreateProductConc
    \/ Begin
    \/ Check
    \/ CreateOrder
    \/ CreateDebit
    \/ Respond
    \/ Stop

SpecConc == Init /\ [][NextConc]_vars

\* ------------------------------------ the ledger on any log: SpecBalance
\* The transaction collection is drawn from the logs of at most MaxLog
\* documents; the log may hold types the handlers never write, which
\* compute_wallet_balance tolerates.  The store is free to return the documents
\* of a find in any order: read_order is the order of one read.
LogUsers == {"u1", "u2"}
LogAmounts == {100, 200, 705}
LogDocs == [user_id : LogUsers, type : TxnTypes, amount : LogAmounts,
            order_id : {NoOrder}]
Logs == UNION {[1..n -> LogDocs] : n \in 0..MaxLog}

Bijections(n) ==
    {f \in [1..n -> 1..n] : \A i, j \in 1..n : f[i] = f[j] => i = j}

Reordered(log, read_order) ==
    [i \in 1..Len(log) |-> log[read_order[i]]]

\* GET /api/wallet/balance
wallet_balance(user_id, read_order) ==
    /\ last' = [op |-> "wallet_balance", user_id |-> user_id,
                balance |-> balance_of_log(Reordered(txns, read_order), user_id)]
    /\ UNCHANGED <<products, nextPid, orders, txns, CUTOFF_HOUR, topup, procs>>

InitBalance ==
    /\ products = [p \in ProductIds |-> NoProduct]
    /\ nextPid = 0
    /\ orders = <<>>
    /\ txns \in Logs
    /\ CUTOFF_HOUR = DEFAULT_CUTOFF_HOUR
    /\ procs = [p \in ProcIds |-> Idle]
    /\ topup = NoTopUp
    /\ last = NoResponse

WalletBalance ==
    \E user_id \in LogUsers, read_order \in Bijections(Len(txns)) :
        wallet_balance(user_id, read_order)

NextBalance == WalletBalance

SpecBalance == InitBalance /\ [][NextBalance]_vars

\* --------------------------------- the cutoff rule on any clock: SpecDelivery
Hours == 0..23
ClockReadings == [date : 1..MaxDay, hour : Hours, minute : {0, 59},
                  second : {0, 59}]

\* GET /api/config
get_config(now) ==
    /\ last' = [op |-> "get_config", server_time |-> now,
                cutoff_hour |-> CUTOFF_HOUR,
                expected_delivery_date |-> get_delivery_date(now)]
    /\ UNCHANGED <<products, nextPid, orders, txns, CUTOFF_HOUR, topup, procs>>

InitDelivery ==
    /\ products = [p \in ProductIds |-> NoProduct]
    /\ nextPid = 0
    /\ orders = <<>>
    /\ txns = <<>>
    /\ CUTOFF_HOUR \in Hours
    /\ procs = [p \in ProcIds |-> Idle]
    /\ topup = NoTopUp
    /\ last = NoResponse

GetConfig == \E now \in ClockReadings : get_config(now)

NextDelivery == GetConfig

SpecDelivery == InitDelivery /\ [][NextDelivery]_vars

\* ------------------------------ the summary on any order book: SpecSummary
\* The order collection is drawn from the books of at most MaxSummaryOrders
\* orders of any status the schema allows, due tomorrow or the day after.
SummaryToday == 1
SummaryLines == [product_id : {1, 2}, qty : Qtys]
SummaryItemLists ==
    {l \in UNION {[1..n -> SummaryLines] : n \in 1..2} :
        Len(l) = 2 => (l[1].qty = 1 /\ l[2].qty = 2)}
SummaryName == [pid \in {1, 2} |-> IF pid = 1 THEN "milk" ELSE "bread"]

SummaryOrder(lines, delivery_date, status) ==
    LET order_items == [i \in 1..Len(lines) |->
                           [product_id |-> lines[i].product_id,
                            name |-> SummaryName[lines[i].product_id],
                            price |-> 5, qty |-> lines[i].qty]]
    IN  [user_id |-> "u1", items |-> order_items,
         subtotal |-> Subtotal(order_items),
         delivery_date |-> delivery_date, status |-> status]

SummaryOrders ==
    {SummaryOrder(l, d, st) : l \in SummaryItemLists,
                              d \in {SummaryToday + 1, SummaryToday + 2},
                              st \in {"placed", "packed", "cancelled"}}

OrderBooks == UNION {[1..n -> SummaryOrders] : n \in 0..MaxSummaryOrders}

\* mutant: the status of an order is not looked at
get_documents_order_any_status(tomorrow) ==
    SelectSeq(orders, LAMBDA o : o.delivery_date = tomorrow)

\* the find of summary_next_morning: due tomorrow, status placed or packed
get_documents_order(tomorrow) ==
    SelectSeq(orders, LAMBDA o : /\ o.delivery_date = tomorrow
                                 /\ o.status \in {"placed", "packed"})

\* one line added to the consolidated entries (a dict in insertion order)
AddLine(consolidated, item) ==
    IF \E k \in 1..Len(consolidated) :
           consolidated[k].product_id = item.product_id
    THEN [k \in 1..Len(consolidated) |->
             IF consolidated[k].product_id = item.product_id
             THEN [consolidated[k] EXCEPT !.total_qty = @ + item.qty]
             ELSE consolidated[k]]
    ELSE Append(consolidated, [product_id |-> item.product_id,
                               name |-> item.name, total_qty |-> item.qty])

RECURSIVE AddLines(_, _)
AddLines(consolidated, items) ==
    IF items = <<>> THEN consolidated
    ELSE AddLines(AddLine(consolidated, Head(items)), Tail(items))

RECURSIVE Consolidate(_, _)
Consolidate(consolidated, os) ==
    IF os = <<>> THEN consolidated
    ELSE Consolidate(AddLines(consolidated, Head(os).items), Tail(os))

\* GET /api/orders/summary-next-morning
summary_next_morning(caller, today) ==
    /\ Role[caller] = "admin"
    /\ LET tomorrow == today + 1
           selected == get_documents_order(tomorrow)
       IN  last' = [op |-> "summary_next_morning", date |-> tomorrow,
                    items |-> Consolidate(<<>>, selected),
                    order_count |-> Len(selected)]
    /\ UNCHANGED <<products, nextPid, orders, txns, CUTOFF_HOUR, topup, procs>>

InitSummary ==
    /\ products = [p \in ProductIds |-> NoProduct]
    /\ nextPid = 0
    /\ orders \in OrderBooks
    /\ txns = <<>>
    /\ CUTOFF_HOUR \in {0, DEFAULT_CUTOFF_HOUR}
    /\ procs = [p \in ProcIds |-> Idle]
    /\ topup = NoTopUp
    /\ last = NoResponse

Summary ==
    \E caller \in Users : summary_next_morning(caller, SummaryToday)

NextSummary == Summary

SpecSummary == InitSummary /\ [][NextSummary]_vars

\* =========================================================== claims on Spec
Requests ==
    [caller : Users, user_id : WalletIds, items : ItemLists]

OutcomeOf(r, now) ==
    PlaceOutcome(r.caller, r.user_id, r.items, now)

\* The claims state amounts as decimals: the sums below are exact, in
\* thousandths, and use none of the float arithmetic of the handlers.
\* sum over the requested lines of catalog price x qty, before any rounding
RequestTotal(items) ==
    LET RECURSIVE Sum(_)
        Sum(n) == IF n = 0 THEN 0
                  ELSE products[items[n].product_id].price * items[n].qty
                       + Sum(n - 1)
    IN  Sum(Len(items))

\* credits minus debits of one user in a log, before any rounding
LedgerTotal(log, user_id) ==
    LET RECURSIVE Sum(_)
        Sum(n) == IF n = 0 THEN 0
                  ELSE IF log[n].user_id # user_id THEN Sum(n - 1)
                  ELSE IF log[n].type = "credit" THEN Sum(n - 1) + log[n].amount
                  ELSE IF log[n].type = "debit" THEN Sum(n - 1) - log[n].amount
                  ELSE Sum(n - 1)
    IN  Sum(Len(log))

\* x rounded to 2 decimal places: the nearest whole cent, and either
\* neighbouring cent when x is exactly half a cent between two
Rounded2(x) ==
    IF x % 10 = 5 THEN {x - 5, x + 5}
    ELSE {((x + 5) \div 10) * 10}

AllListed(items) ==
    \A i \in 1..Len(items) :
        /\ items[i].product_id \in ProductIds
        /\ products[items[i].product_id].present

AllAvailable(items) ==
    /\ AllListed(items)
    /\ \A i \in 1..Len(items) : products[items[i].product_id].available

DebitsMatchOrders ==
    \A i \in 1..Len(txns) :
        (txns[i].type = "debit" /\ txns[i].order_id # NoOrder) =>
            /\ txns[i].order_id \in 1..Len(orders)
            /\ txns[i].amount = orders[txns[i].order_id].subtotal

\* What a successful placement leaves behind.  As stated: the subtotal is the
\* plain total of the lines and the balance returned is the balance before
\* minus the subtotal.  As amended: the subtotal is that total rounded to 2
\* decimal places, the balance returned is the ledger total with the new debit
\* in it rounded to 2 decimal places, and it is the balance before minus the
\* subtotal when the ledger total before is a whole number of cents.
PlaceOrderSettles(amended) ==
    \A r \in Requests, now \in Nows :
        LET out == OutcomeOf(r, now)
        IN  out.resp.code = 200 =>
              LET n == Len(out.orders)
                  o == out.orders[n]
                  d == out.txns[Len(out.txns)]
                  before == compute_wallet_balance(r.user_id)
              IN  /\ n = Len(orders) + 1
                  /\ SubSeq(out.orders, 1, Len(orders)) = orders
                  /\ o.status = "placed"
                  /\ o.user_id = r.user_id
                  /\ IF amended
                     THEN o.subtotal \in Rounded2(RequestTotal(r.items))
                     ELSE o.subtotal = RequestTotal(r.items)
                  /\ Len(out.txns) = Len(txns) + 1
                  /\ SubSeq(out.txns, 1, Len(txns)) = txns
                  /\ d = [user_id |-> r.user_id, type |-> "debit",
                          amount |-> o.subtotal, order_id |-> n]
                  /\ out.resp.order_id = n
                  /\ out.resp.subtotal = o.subtotal
                  /\ IF amended
                     THEN /\ out.resp.balance \in
                                Rounded2(LedgerTotal(out.txns, r.user_id))
                          /\ LedgerTotal(txns, r.user_id) % 10 = 0 =>
                                out.resp.balance = before - o.subtotal
                     ELSE out.resp.balance = before - o.subtotal

\* C1 (as stated): a successful place_order creates exactly one order (status
\* placed, subtotal = the sum over the requested lines of price x qty) and
\* exactly one debit of that subtotal for the same user referencing the new
\* order, returns the balance before the call minus the subtotal, and every
\* debit that references an order has that order's subtotal as its amount.
C1_SubtotalIsPlainSum ==
    /\ PlaceOrderSettles(FALSE)
    /\ DebitsMatchOrders

\* C1 (amended): a successful place_order creates exactly one order (status
\* placed, subtotal = the sum over the requested lines of price x qty rounded
\* to 2 decimal places) and exactly one debit of that subtotal for the same
\* user referencing the new order; the balance returned is the user's credits
\* minus debits, the new debit among them, rounded to 2 decimal places, which
\* is the balance before the call minus the subtotal when the user's credits
\* minus debits before the call are a whole number of cents; every debit that
\* references an order has that order's subtotal as its amount.
C1_PlaceOrderSettles ==
    /\ PlaceOrderSettles(TRUE)
    /\ DebitsMatchOrders

\* the plain total of the lines an order stores
OrderTotal(o) ==
    LET RECURSIVE Sum(_)
        Sum(n) == IF n = 0 THEN 0
                  ELSE o.items[n].price * o.items[n].qty + Sum(n - 1)
    IN  Sum(Len(o.items))

\* a two-line order was placed whose subtotal differs from the plain total of
\* its lines, on a ledger of whole cents, and the balance came back reduced
\* by the subtotal
C1_Witness ==
    /\ last.op = "place_order"
    /\ last.code = 200
    /\ Len(orders[last.order_id].items) = 2
    /\ OrderTotal(orders[last.order_id]) # last.subtotal
    /\ txns[Len(txns)].order_id = last.order_id
    /\ txns[Len(txns)].amount = last.subtotal
    /\ LedgerTotal(txns, "u1") % 10 = 0
    /\ last.balance = LedgerTotal(txns, "u1")

\* C2: a place_order call by a caller who is neither the target user nor an
\* admin (403), with an empty item list (400), with a requested product id
\* absent from the catalog or with a requested product unavailable (404 or 400)
\* is rejected and leaves the order and transaction collections as they were.
C2_RejectedWritesNothing ==
    \A r \in Requests :
        LET allowed == Allowed(r.caller, r.user_id)
            absent == \E i \in 1..Len(r.items) :
                          /\ r.items[i].product_id # BadId
                          /\ \/ r.items[i].product_id \notin ProductIds
                             \/ ~products[r.items[i].product_id].present
            unavailable == \E i \in 1..Len(r.items) :
                               /\ r.items[i].product_id \in ProductIds
                               /\ products[r.items[i].product_id].present
                               /\ ~products[r.items[i].product_id].available
        IN  (~allowed \/ r.items = <<>> \/ absent \/ unavailable) =>
                \A now \in Nows :
                    LET out == OutcomeOf(r, now)
                    IN  /\ ~allowed => out.resp.code = 403
                        /\ (allowed /\ r.items = <<>>) => out.resp.code = 400
                        /\ (allowed /\ r.items # <<>>) =>
                               out.resp.code \in {400, 404}
                        /\ out.orders = orders
                        /\ out.txns = txns

\* an order for an unavailable product was refused although the wallet had funds
C2_Witness ==
    /\ last.op = "place_order"
    /\ last.code = 400
    /\ last.detail = "unavailable"
    /\ compute_wallet_balance("u1") > 0
    /\ orders = <<>>

\* C3: when every requested product is present and available, place_order
\* fails with 402 exactly when the computed balance is strictly less than the
\* subtotal; the error carries required_topup = subtotal - balance, the balance
\* and the subtotal, and no order or transaction is created.
C3_InsufficientFunds ==
    \A r \in Requests :
        (Allowed(r.caller, r.user_id) /\ r.items # <<>> /\ AllAvailable(r.items)) =>
            \A now \in Nows :
                LET out == OutcomeOf(r, now)
                    balance == compute_wallet_balance(r.user_id)
                    subtotal == out.resp.subtotal
                IN  /\ subtotal \in Rounded2(RequestTotal(r.items))
                    /\ out.resp.code = 402 <=> balance < subtotal
                    /\ out.resp.code \in {200, 402}
                    /\ out.resp.code = 402 =>
                          /\ out.resp.required_topup = subtotal - balance
                          /\ out.resp.balance = balance
                          /\ out.orders = orders
                          /\ out.txns = txns

\* a funded wallet was refused an order that costs more than it holds
C3_Witness ==
    /\ last.op = "place_order"
    /\ last.code = 402
    /\ last.balance > 0
    /\ last.required_topup = last.subtotal - last.balance
    /\ orders = <<>>

\* C6: no step changes the line items or the subtotal of an order already
\* placed, and the lines of a new order carry the catalog name and price of
\* their product as read at placement.
C6_OrderSnapshotFrozen ==
    [][/\ \A i \in 1..Len(orders) :
             /\ i <= Len(orders')
             /\ orders'[i].items = orders[i].items
             /\ orders'[i].subtotal = orders[i].subtotal
       /\ Len(orders') > Len(orders) =>
             LET o == orders'[Len(orders')]
             IN  \A k \in 1..Len(o.items) :
                     /\ o.items[k].price = products[o.items[k].product_id].price
                     /\ o.items[k].name = products[o.items[k].product_id].name
      ]_vars

\* an order whose product has since been repriced and renamed, followed by a
\* top-up and by a second order that carries the new name and price
C6_Witness ==
    /\ Len(orders) = 2
    /\ Len(txns) = 4
    /\ txns[2].type = "debit" /\ txns[2].order_id = 1
    /\ txns[3].type = "credit"
    /\ txns[4].type = "debit" /\ txns[4].order_id = 2
    /\ orders[1].items[1].product_id = orders[2].items[1].product_id
    /\ orders[1].items[1].price # orders[2].items[1].price
    /\ orders[1].items[1].name # orders[2].items[1].name
    /\ orders[1].subtotal = txns[2].amount

\* C10: with requests served one at a time, the computed wallet balance is
\* never negative.
C10_BalanceNeverNegative ==
    \A u \in Users : compute_wallet_balance(u) >= 0

\* one top-up of half a cent, one order of one cent served after it, and the
\* computed balance is minus one cent
C10_Overdrawn ==
    /\ Len(txns) = 2
    /\ txns[1] = CreditDoc("u1", 5)
    /\ txns[2] = DebitDoc("u1", 10, 1)
    /\ Len(orders) = 1
    /\ last.op = "place_order" /\ last.code = 200
    /\ last.balance = -10
    /\ compute_wallet_balance("u1") = -10


\* ======================================================= claims on SpecConc
PastCheck(p) ==
    \/ procs[p].pc \in {"create_order", "create_debit", "respond", "done"}
    \/ procs[p].pc = "crashed"
       /\ procs[p].at \in {"create_order", "create_debit", "respond"}

DebitWritten(p) ==
    \/ procs[p].pc \in {"respond", "done"}
    \/ procs[p].pc = "crashed" /\ procs[p].at = "respond"

\* C8: every placement that got past the wallet check had its subtotal covered
\* by the balance it read, and still the wallet can end up overdrawn; when it
\* does on a ledger of whole cents, a debit was written by a request whose
\* check had gone stale (another debit for the same user was written between
\* its check and its own debit).
C8_OverdraftOnlyByStaleCheck ==
    /\ \A p \in ProcIds : PastCheck(p) => procs[p].subtotal <= procs[p].balance
    /\ \A u \in Users :
          (/\ compute_wallet_balance(u) < 0
           /\ \A i \in 1..Len(txns) :
                 txns[i].user_id = u => txns[i].amount % 10 = 0) =>
              \E q \in ProcIds : /\ DebitWritten(q)
                                 /\ procs[q].user_id = u
                                 /\ procs[q].stale

\* two placements read the same balance before either wrote its debit, each
\* subtotal was covered by it, together they were not, both finished with an
\* order and a debit, and the balance is negative
C8_Witness ==
    \E p, q \in ProcIds :
        /\ p # q
        /\ procs[p].pc = "done" /\ procs[q].pc = "done"
        /\ procs[p].code = 200 /\ procs[q].code = 200
        /\ procs[p].user_id = procs[q].user_id
        /\ procs[p].balance = procs[q].balance
        /\ procs[q].stale /\ ~procs[p].stale
        /\ procs[p].subtotal <= procs[p].balance
        /\ procs[q].subtotal <= procs[p].balance
        /\ procs[p].subtotal + procs[q].subtotal > procs[p].balance
        /\ Len(orders) = 2
        /\ \E i, j \in 1..Len(txns) :
              /\ txns[i] = DebitDoc(procs[p].user_id, procs[p].subtotal,
                                    procs[p].order_id)
              /\ txns[j] = DebitDoc(procs[q].user_id, procs[q].subtotal,
                                    procs[q].order_id)
              /\ i < j
        /\ compute_wallet_balance(procs[p].user_id) < 0

\* a request that stopped after creating its order and before its debit
Orphaned(p) ==
    procs[p].pc = "crashed" /\ procs[p].at = "create_debit"

NoDebitFor(order_id) ==
    \A i \in 1..Len(txns) : txns[i].order_id # order_id

OrphanKept ==
    /\ \A i \in 1..Len(txns) :
          txns[i].order_id # NoOrder => txns[i].order_id \in 1..Len(orders)
    /\ \A p \in ProcIds :
          Orphaned(p) =>
              /\ procs[p].order_id \in 1..Len(orders)
              /\ orders[procs[p].order_id].status = "placed"
              /\ orders[procs[p].order_id].subtotal = procs[p].subtotal
              /\ NoDebitFor(procs[p].order_id)
              /\ (\A i \in 1..Len(txns) : txns[i].type # "debit") =>
                     compute_wallet_balance(procs[p].user_id) >= procs[p].balance

\* C9: the order is written by one step and its debit by a later one; a
\* request that stops in between leaves its order in the store, status placed,
\* with no debit referencing it, and no later step removes the order, adds the
\* debit or moves the request on; the balance still holds the order's
\* subtotal.  No debit ever references an order that does not exist.
C9_OrderThenDebit ==
    /\ []OrphanKept
    /\ [][/\ Len(orders') > Len(orders) => txns' = txns
          /\ Len(txns') > Len(txns) => orders' = orders
          /\ \A i \in 1..Len(orders) : i <= Len(orders') /\ orders'[i] = orders[i]
          /\ \A i \in 1..Len(txns) : i <= Len(txns') /\ txns'[i] = txns[i]
          /\ \A p \in ProcIds : Orphaned(p) => procs'[p] = procs[p]
          /\ \A p \in ProcIds :
                (procs[p].pc = "create_debit" /\ procs'[p].pc = "crashed") =>
                    /\ txns' = txns
                    /\ orders' = orders
         ]_vars

\* an order left without its debit after the other request has run to its end:
\* the balance is what it was before the order
C9_Witness ==
    \E p, q \in ProcIds :
        /\ Orphaned(p)
        /\ procs[p].subtotal > 0
        /\ procs[q].pc = "done"
        /\ procs[q].order_id > procs[p].order_id
        /\ NoDebitFor(procs[p].order_id)
        /\ orders[procs[p].order_id].status = "placed"
        /\ compute_wallet_balance(procs[p].user_id)
             = procs[p].balance - procs[q].subtotal

\* ==================================== claims on SpecBalance, SpecDelivery
\* the sum of the amounts of the user's transactions of one type, exact, in
\* thousandths
TypeSum(user_id, type) ==
    LET RECURSIVE Sum(_)
        Sum(n) == IF n = 0 THEN 0
                  ELSE (IF txns[n].user_id = user_id /\ txns[n].type = type
                        THEN txns[n].amount ELSE 0) + Sum(n - 1)
    IN  Sum(Len(txns))

\* what another read of the same log, in the order read_order, computes
BalanceRead(user_id, read_order) ==
    balance_of_log(Reordered(txns, read_order), user_id)

BalanceReported ==
    last'.op = "wallet_balance" =>
        /\ last'.balance = TypeSum(last'.user_id, "credit")
                           - TypeSum(last'.user_id, "debit")
        /\ \A read_order \in Bijections(Len(txns)) :
              BalanceRead(last'.user_id, read_order) = last'.balance
        /\ txns' = txns
        /\ orders' = orders
        /\ products' = products

\* C4: compute_wallet_balance(user) is the sum of the user's credits minus the
\* sum of the user's debits, whatever else the log holds; the order in which
\* the transactions are read does not change the result; the call writes
\* nothing.
C4_BalanceIsPlainSum ==
    [][BalanceReported]_vars

\* three credits of 0.1, 0.2 and 0.705 to one user were read as 1.0, and
\* another order of reading the same three gives 1.01
C4_ReadOrderMatters ==
    /\ last.op = "wallet_balance"
    /\ last.user_id = "u1"
    /\ Len(txns) = 3
    /\ \A i \in 1..3 : txns[i].user_id = "u1" /\ txns[i].type = "credit"
    /\ {txns[i].amount : i \in 1..3} = {100, 200, 705}
    /\ last.balance = 1000
    /\ \E read_order \in Bijections(3) :
          BalanceRead("u1", read_order) = 1010

\* seconds since midnight of a clock reading
SecondOfDay(now) ==
    now.hour * 3600 + now.minute * 60 + now.second

\* C5: get_delivery_date(now) is now's date plus 1 day when now's time of day
\* is strictly before cutoffHour:00, and now's date plus 2 days otherwise; the
\* instant cutoffHour:00:00 takes the 2-day path.
C5_DeliveryDate ==
    last.op = "get_config" =>
        LET now == last.server_time
        IN  /\ last.cutoff_hour = CUTOFF_HOUR
            /\ SecondOfDay(now) < CUTOFF_HOUR * 3600 =>
                   last.expected_delivery_date = now.date + 1
            /\ SecondOfDay(now) >= CUTOFF_HOUR * 3600 =>
                   last.expected_delivery_date = now.date + 2

\* the clock read at exactly 23:00:00 with the cutoff at 23
C5_Witness ==
    /\ last.op = "get_config"
    /\ CUTOFF_HOUR = 23
    /\ last.server_time.hour = 23
    /\ last.server_time.minute = 0
    /\ last.server_time.second = 0
    /\ last.expected_delivery_date = last.server_time.date + 2

\* ================================================== claims on SpecSummary
Selected(tomorrow) ==
    {i \in 1..Len(orders) : /\ orders[i].delivery_date = tomorrow
                            /\ orders[i].status \in {"placed", "packed"}}

\* the quantity of one product over the lines of the orders of a set
QtyOver(pid, sel) ==
    LET RECURSIVE LineSum(_, _)
        LineSum(items, n) ==
            IF n = 0 THEN 0
            ELSE (IF items[n].product_id = pid THEN items[n].qty ELSE 0)
                 + LineSum(items, n - 1)
        RECURSIVE OrderSum(_)
        OrderSum(n) ==
            IF n = 0 THEN 0
            ELSE (IF n \in sel THEN LineSum(orders[n].items, Len(orders[n].items))
                  ELSE 0) + OrderSum(n - 1)
    IN  OrderSum(Len(orders))

Ordered(pid, sel) ==
    \E i \in sel : \E k \in 1..Len(orders[i].items) :
        orders[i].items[k].product_id = pid

\* C7: the summary at server date D selects the orders due D+1 whose status is
\* placed or packed, whatever the cutoff hour; total_qty of a product is the
\* sum of qty over the lines of that product in the selected orders, a product
\* with no selected line is absent, order_count is the number of selected
\* orders, and the call writes nothing.
C7_SummaryNextMorning ==
    [][last'.op = "summary_next_morning" =>
          LET sel == Selected(SummaryToday + 1)
              entries == last'.items
          IN  /\ last'.date = SummaryToday + 1
              /\ last'.order_count = Cardinality(sel)
              /\ \A pid \in {1, 2} :
                    IF Ordered(pid, sel)
                    THEN /\ Cardinality({k \in 1..Len(entries) :
                                entries[k].product_id = pid}) = 1
                         /\ \A k \in 1..Len(entries) :
                               entries[k].product_id = pid =>
                                   entries[k].total_qty = QtyOver(pid, sel)
                    ELSE \A k \in 1..Len(entries) : entries[k].product_id # pid
              /\ orders' = orders
              /\ txns' = txns
              /\ products' = products
      ]_vars

\* a packed order due tomorrow with two lines of one product is summed, and a
\* cancelled order and its product are left out
C7_Witness ==
    /\ last.op = "summary_next_morning"
    /\ Len(orders) = 2
    /\ orders[1].status = "packed" /\ orders[1].delivery_date = SummaryToday + 1
    /\ Len(orders[1].items) = 2
    /\ orders[1].items[1].product_id = 1 /\ orders[1].items[2].product_id = 1
    /\ orders[2].status = "cancelled" /\ orders[2].delivery_date = SummaryToday + 1
    /\ orders[2].items[1].product_id = 2
    /\ last.order_count = 1
    /\ Len(last.items) = 1
    /\ last.items[1].total_qty = orders[1].items[1].qty + orders[1].items[2].qty

====
